---- MODULE Spec2Model ----
(***************************************************************************)
(* smartnotes-ai: the TTL caches of src/utils/clientCache.ts (ClientCache, *)
(* an in-memory Map, and localStorageCache, JSON entries in the browser's  *)
(* localStorage) and the cache-aware fetch hook of                         *)
(* src/hooks/useApiCache.ts, and the stream consumer of the chat panel,     *)
(* send() of src/components/ChatSidebar.tsx.                               *)
(*                                                                         *)
(* Spec     : a client calling the operations of the cache it selected.    *)
(* SpecHook : one mounted useApiCache instance over the cache it selected. *)
(* SpecSSE  : the ChatSidebar component, its send() calls and the chunks   *)
(*            their readers deliver.                                       *)
(***************************************************************************)
EXTENDS Integers, Sequences, FiniteSets

\* ------------------------------------------------------------------ bounds
\* Date.now() runs from 1 to MaxTime.
MaxTime == 3
\* Producer invocations one useApiCache instance makes.
MaxCalls == 2
\* send() calls that pass the guard of ChatSidebar; the chunks its readers
\* deliver in all; the bytes of a chunk that ends inside an event (a chunk
\* that ends with an event has any length).
MaxSends == 2
MaxReads == 2
MaxPiece == 7
MaxDeltas == 4
MaxAttempts == 3
MaxErrors == 1

\* ------------------------------------------------------- JavaScript values
\* A JavaScript value is a record [t, n]: t is its kind, n its payload.
Null == [t |-> "null", n |-> 0]
Undefined == [t |-> "undefined", n |-> 0]
Num(i) == [t |-> "number", n |-> i]
Infinity == [t |-> "Infinity", n |-> 0]
NaN == [t |-> "NaN", n |-> 0]
True == [t |-> "boolean", n |-> 1]
False == [t |-> "boolean", n |-> 0]
\* A plain object literal such as {message: 'test data'}; n tells two apart.
Obj(i) == [t |-> "object", n |-> i]
\* An object that refers to itself: JSON.stringify throws on it.
Circular == [t |-> "circular", n |-> 0]
\* An Error a producer rejects with.
Err(i) == [t |-> "error", n |-> i]

Bool(b) == IF b THEN True ELSE False

\* ToNumber, as the relational operators apply it to an operand.
ToNumber(v) ==
    CASE v.t = "number" -> v
      [] v.t = "Infinity" -> v
      [] v.t = "null" -> Num(0)
      [] v.t = "boolean" -> Num(v.n)
      [] OTHER -> NaN

\* a > b for a finite number a: false when b converts to NaN or is Infinity.
Greater(a, b) ==
    LET y == ToNumber(b)
    IN  y.t = "number" /\ a > y.n

\* a + b for a finite number a and a number b.
Plus(a, b) ==
    CASE b.t = "number" -> Num(a + b.n)
      [] b.t = "Infinity" -> Infinity
      [] OTHER -> NaN

\* ToBoolean, as `if (cached)` and `!item` apply it.
Truthy(v) ==
    CASE v.t = "number" -> v.n # 0
      [] v.t = "boolean" -> v.n = 1
      [] v.t \in {"null", "undefined", "NaN"} -> FALSE
      [] OTHER -> TRUE

\* -------------------------------------------------------------------- keys
\* Keys are strings, modelled as sequences of characters.
Prefix == <<"s", "m", "a", "r", "t", "n", "o", "t", "e", "s", "-">>
\* 'smartnotes-a'
KeyA == Prefix \o <<"a">>
\* 'k1'
KeyB == <<"k", "1">>
\* The keys a client passes to the cache, and other code to localStorage.
Keys == {KeyA, KeyB}
NoKey == <<>>

\* String.prototype.startsWith
startsWith(s, p) == Len(s) >= Len(p) /\ SubSeq(s, 1, Len(p)) = p

\* ------------------------------------------------------------- JSON texts
\* A string held in localStorage, by its content: text that is not JSON, a
\* JSON literal (v), or a JSON object with its data and expires members.
Invalid == [k |-> "invalid", v |-> Null, hasData |-> FALSE, data |-> Null,
            hasExpires |-> FALSE, expires |-> Null]
Literal(v) == [k |-> "literal", v |-> v, hasData |-> FALSE, data |-> Null,
               hasExpires |-> FALSE, expires |-> Null]
Object(hasData, data, hasExpires, expires) ==
    [k |-> "object", v |-> Null, hasData |-> hasData, data |-> data,
     hasExpires |-> hasExpires, expires |-> expires]

\* JSON.stringify of a member value: NaN and Infinity are written as null.
Serialized(v) == IF v.t \in {"NaN", "Infinity"} THEN Null ELSE v

\* JSON.stringify({data, expires}): throws on a circular value, leaves out a
\* member that is undefined.
JSON_stringify(data, expires) ==
    IF data.t = "circular"
    THEN [threw |-> TRUE, text |-> Invalid]
    ELSE [threw |-> FALSE,
          text |-> Object(data.t # "undefined",
                          IF data.t = "undefined" THEN Null ELSE Serialized(data),
                          expires.t # "undefined",
                          IF expires.t = "undefined" THEN Null ELSE Serialized(expires))]

\* JSON.parse: throws on text that is not JSON.
JSON_parse(text) == [threw |-> text.k = "invalid", value |-> text]

\* parsed.expires and parsed.data: reading a member of null throws, of
\* another literal or of an object without the member gives undefined.
MemberThrows(value) == value.k = "literal" /\ value.v.t = "null"
Member_expires(value) ==
    IF value.k = "object" /\ value.hasExpires THEN value.expires ELSE Undefined
Member_data(value) ==
    IF value.k = "object" /\ value.hasData THEN value.data ELSE Undefined

\* Map and Storage: remove a key, put a key.
Without(f, key) == [k \in DOMAIN f \ {key} |-> f[k]]
With(f, key, x) == [k \in DOMAIN f \cup {key} |-> IF k = key THEN x ELSE f[k]]
Empty == [k \in {} |-> Null]

\* ------------------------------------------------------------- ClientCache
\* Each operation, at Date.now() = t on the Map m: the Map it leaves, and
\* what it returns.
ClientCache_set(m, key, data, ttl, t) ==
    With(m, key, [data |-> data, expires |-> Plus(t, ttl)])

\* A bug: the entry is taken as expired already at t + ttl.
ClientCache_miss_AtExpiry(m, key, t) ==
    key \notin DOMAIN m \/ Greater(t + 1, m[key].expires)

ClientCache_miss(m, key, t) ==
    key \notin DOMAIN m \/ Greater(t, m[key].expires)

\* A bug: a miss sweeps every expired entry, not only the one read.
ClientCache_get_Sweep(m, key, t) ==
    IF ClientCache_miss(m, key, t)
    THEN [ret |-> Null,
          map |-> [k \in {x \in DOMAIN m \ {key} : ~Greater(t, m[x].expires)}
                      |-> m[k]]]
    ELSE [ret |-> m[key].data, map |-> m]

ClientCache_get(m, key, t) ==
    IF ClientCache_miss(m, key, t)
    THEN [ret |-> Null, map |-> Without(m, key)]
    ELSE [ret |-> m[key].data, map |-> m]

ClientCache_has(m, key, t) ==
    IF ClientCache_miss(m, key, t)
    THEN [ret |-> False, map |-> Without(m, key)]
    ELSE [ret |-> True, map |-> m]

ClientCache_delete(m, key) == Without(m, key)

ClientCache_clear(m) == Empty

ClientCache_size(m) == Cardinality(DOMAIN m)

\* ------------------------------------------------------- localStorageCache
\* Each operation, at Date.now() = t on the localStorage content s. accept:
\* whether localStorage.setItem takes the write (it throws when the quota is
\* exceeded).
localStorageCache_set(s, key, data, ttl, t, accept) ==
    LET j == JSON_stringify(data, Plus(t, ttl))
    IN  IF j.threw \/ ~accept THEN s ELSE With(s, key, j.text)

\* The read both get and has make: what it finds, and the content it leaves.
localStorageCache_read(s, key, t) ==
    IF key \notin DOMAIN s
    THEN [hit |-> FALSE, data |-> Null, store |-> s]
    ELSE LET p == JSON_parse(s[key])
         IN  IF p.threw \/ MemberThrows(p.value)
             THEN [hit |-> FALSE, data |-> Null, store |-> s]
             ELSE IF Greater(t, Member_expires(p.value))
                  THEN [hit |-> FALSE, data |-> Null, store |-> Without(s, key)]
                  ELSE [hit |-> TRUE, data |-> Member_data(p.value), store |-> s]

localStorageCache_get(s, key, t) ==
    LET r == localStorageCache_read(s, key, t)
    IN  [ret |-> IF r.hit THEN r.data ELSE Null, store |-> r.store]

localStorageCache_has(s, key, t) ==
    LET r == localStorageCache_read(s, key, t)
    IN  [ret |-> Bool(r.hit), store |-> r.store]

localStorageCache_delete(s, key) == Without(s, key)

\* A bug: clear() empties the whole store (localStorage.clear()).
localStorageCache_clear_All(s) == Empty

localStorageCache_clear(s) ==
    [k \in {x \in DOMAIN s : ~startsWith(x, Prefix)} |-> s[k]]

\* ------------------------------------------------------------------ inputs
\* Values a client caches.
Values == {Obj(1), Obj(2), NaN}
\* Time-to-live arguments.
TTLs == {Num(1), Infinity}
\* What other code of the page may have left in localStorage.
ForeignTexts == {Invalid, Literal(Num(5)), Literal(Null),
                 Object(TRUE, Obj(1), FALSE, Null)}

\* ---------------------------------------- ChatSidebar: the text of a stream
\* Text is a sequence of characters. A response body is a sequence of bytes:
\* one byte for each character, except the two bytes Lead, Cont of "é".
LF == "\n"
Whitespace == {" ", LF, "\r", "\t"}
Lead == "C3"
Cont == "A9"
\* U+FFFD, what the decoder writes for bytes that are no character.
Replacement == "U+FFFD"

\* decoder.decode(value, {stream: true}): the text of the bytes, and whether
\* a lead byte waits for its continuation in the next chunk. Each byte gives
\* one character or none: a continuation after a lead gives "é", a stray
\* continuation and a lead that no continuation follows give U+FFFD.
TextDecoder_decode(pending, bytes) ==
    LET n == Len(bytes)
        afterLead(i) == IF i = 1 THEN pending ELSE bytes[i - 1] = Lead
        char(i) ==
            IF bytes[i] = Cont
            THEN IF afterLead(i) THEN "é" ELSE Replacement
            ELSE IF bytes[i] = Lead
                 THEN IF i < n /\ bytes[i + 1] # Cont THEN Replacement ELSE ""
                 ELSE bytes[i]
        carried == IF pending /\ n > 0 /\ bytes[1] # Cont
                   THEN <<Replacement>> ELSE <<>>
    IN  [text |-> carried \o SelectSeq([i \in 1..n |-> char(i)],
                                       LAMBDA c : c # ""),
         pending |-> IF n = 0 THEN pending ELSE bytes[n] = Lead]

\* chunk.split('\n'): the pieces between the line feeds.
split(text) ==
    LET feeds == {i \in 1..Len(text) : text[i] = LF}
        \* the position of the k-th line feed; 0 and Len + 1 close the ends
        feed(k) == IF k = 0 THEN 0
                   ELSE IF k > Cardinality(feeds) THEN Len(text) + 1
                   ELSE CHOOSE i \in feeds :
                            Cardinality({j \in feeds : j < i}) = k - 1
    IN  [k \in 1..(Cardinality(feeds) + 1) |->
            SubSeq(text, feed(k - 1) + 1, feed(k) - 1)]

\* line.trim(): from the first to the last character that is no whitespace.
trim(text) ==
    LET inked == {i \in 1..Len(text) : text[i] \notin Whitespace}
    IN  IF inked = {}
        THEN <<>>
        ELSE SubSeq(text,
                    CHOOSE i \in inked : \A j \in inked : i <= j,
                    CHOOSE i \in inked : \A j \in inked : i >= j)

\* 'data:', trimmed.slice(5) and '[DONE]'
DataPrefix == <<"d", "a", "t", "a", ":">>
slice(text, n) == SubSeq(text, n + 1, Len(text))
DoneToken == <<"[", "D", "O", "N", "E", "]">>

\* The JSON payloads of a stream, written short: {c} stands for
\* {"delta":"c"} and {} for an object with neither delta nor content.
Letters == {"x", "y", "é"}
DeltaPayload(c) == <<"{", c, "}">>
\* JSON.parse(data) and json.delta || json.content || '': every other text
\* (a piece of a payload, a piece of the sentinel, the empty text) makes
\* JSON.parse throw.
ParseDelta(data) ==
    IF Len(data) = 3 /\ data[1] = "{" /\ data[2] \in Letters /\ data[3] = "}"
    THEN [threw |-> FALSE, delta |-> <<data[2]>>]
    ELSE IF data = <<"{", "}">>
         THEN [threw |-> FALSE, delta |-> <<>>]
         ELSE [threw |-> TRUE, delta |-> <<>>]

\* The consumer's account of a stream: content is assistant.content, deltas
\* the non-empty texts appended to it, in order; sawDone: a 'data: [DONE]'
\* line was met; late: the deltas appended after such a line.
NoText == [content |-> <<>>, deltas |-> <<>>, sawDone |-> FALSE, late |-> 0]

\* assistant = {...assistant, content: assistant.content + delta}
appendDelta(acc, delta) ==
    IF delta = <<>>
    THEN acc
    ELSE [acc EXCEPT !.content = @ \o delta, !.deltas = Append(@, delta),
                     !.late = IF acc.sawDone THEN @ + 1 ELSE @]

\* The body of `for (const line of lines)`.
processLine(acc, line) ==
    LET trimmed == trim(line)
    IN  IF ~startsWith(trimmed, DataPrefix)
        THEN acc
        ELSE LET data == trim(slice(trimmed, 5))
             IN  IF data = DoneToken
                 THEN [acc EXCEPT !.sawDone = TRUE]
                 ELSE LET json == ParseDelta(data)
                      IN  appendDelta(acc, IF json.threw THEN data ELSE json.delta)

RECURSIVE processLines(_, _)
processLines(acc, lines) ==
    IF lines = <<>>
    THEN acc
    ELSE processLines(processLine(acc, Head(lines)), Tail(lines))

\* One decoded chunk: split into lines, each line handled on its own.
processChunk(acc, chunk) == processLines(acc, split(chunk))

\* Well-framed streams: events `data: <payload>` closed by a blank line.
EventOf(payload) == DataPrefix \o <<" ">> \o payload \o <<LF, LF>>
\* Byte k of the body is the last byte of an event, the blank line included.
EndsEvent(body, k) ==
    /\ k >= 2 /\ body[k] = LF /\ body[k - 1] = LF
    /\ k < Len(body) => body[k + 1] # LF
Bodies ==
    { EventOf(DeltaPayload("x")) \o EventOf(DoneToken),
      EventOf(<<"{", Lead, Cont, "}">>),
      EventOf(DeltaPayload("x")) \o EventOf(DoneToken) \o EventOf(DeltaPayload("y")) }

\* ------------------------------------------------------------------- state
\* ------------------------------------------- ChatSidebar: renderChatHtml
\* The buffer is a sequence of characters, "http://" and "https://" being one
\* element each. In the output an entity or a piece of markup the renderer
\* writes is one element; no pattern of the renderer matches a part of one.
Schemes == {"http://", "https://"}
\* The character U+0060
Backtick == "U+0060"
Fence == <<Backtick, Backtick, Backtick>>
AOpen == "<a class=\"underline\" href=\""
AMid == "\" target=\"_blank\" rel=\"noopener noreferrer\">"
AClose == "</a>"
Markup == {"<code>", "</code>", "<strong>", "</strong>", "<em>", "</em>",
           AOpen, AMid, AClose, "<p>", "</p>", "<li>", "</li>",
           "<pre><code>", "</code></pre>",
           "<ul class=\"list-disc pl-5\">", "</ul>",
           "<ol class=\"list-decimal pl-5\">", "</ol>"}

Least(S) == CHOOSE i \in S : \A j \in S : i <= j

\* s.replace(/c/g, entity) for a single character c
replaceChar(s, c, entity) ==
    [i \in 1..Len(s) |-> IF s[i] = c THEN entity ELSE s[i]]

esc(s) ==
    replaceChar(replaceChar(replaceChar(s, "&", "&amp;"), "<", "&lt;"),
                ">", "&gt;")

\* (md || '').split(/\r?\n/)
splitLines(md) ==
    LET lines == split(md)
    IN  [k \in 1..Len(lines) |->
            IF k < Len(lines) /\ lines[k] # <<>>
               /\ lines[k][Len(lines[k])] = "\r"
            THEN SubSeq(lines[k], 1, Len(lines[k]) - 1)
            ELSE lines[k]]

\* code.join('\n'), para.join(' '), items.join('')
RECURSIVE join(_, _)
join(texts, sep) ==
    IF texts = <<>> THEN <<>>
    ELSE IF Len(texts) = 1 THEN texts[1]
    ELSE texts[1] \o sep \o join(Tail(texts), sep)

\* The first position from i on that holds no character of the class, and
\* Len(s) + 1 when there is none.
skip(s, i, class) ==
    Least({j \in i..(Len(s) + 1) : j > Len(s) \/ s[j] \notin class})

at(s, p, d) == p + Len(d) - 1 <= Len(s) /\ SubSeq(s, p, p + Len(d) - 1) = d

\* /^\s*[-*]\s+/: the length of the match, 0 when the line does not match.
bulletPattern(line) ==
    LET a == skip(line, 1, Whitespace)
        e == skip(line, a + 1, Whitespace)
    IN  IF a <= Len(line) /\ line[a] \in {"-", "*"} /\ e > a + 1
        THEN e - 1 ELSE 0

Digits == {"0", "1", "2", "3", "4", "5", "6", "7", "8", "9"}
\* /^\s*(?:\*\*|__)?\s*\d+[\.|\)|\u3001|\uFF0E]\s+/
numPattern(line) ==
    LET a == skip(line, 1, Whitespace)
        b == IF at(line, a, <<"*", "*">>) \/ at(line, a, <<"_", "_">>)
             THEN a + 2 ELSE a
        c == skip(line, b, Whitespace)
        d == skip(line, c, Digits)
        e == skip(line, d + 1, Whitespace)
    IN  IF d > c /\ d <= Len(line)
           /\ line[d] \in {".", "|", ")", "U+3001", "U+FF0E"}
           /\ e > d + 1
        THEN e - 1 ELSE 0

\* The substitutions of inline(), in the order of the code. A span pattern
\* is open ([^c]+) open, c the first character of open; alone: the
\* pattern carries (?<!c) and (?!c).
Span(open, alone, tag) ==
    [open |-> open, alone |-> alone, link |-> FALSE,
     before |-> "<" \o tag \o ">", after |-> "</" \o tag \o ">"]
Link == [open |-> <<>>, alone |-> FALSE, link |-> TRUE,
         before |-> AOpen, after |-> AClose]
Substitutions ==
    << Span(<<Backtick>>, FALSE, "code"),
       Span(<<"*", "*">>, FALSE, "strong"),
       Span(<<"_", "_">>, FALSE, "strong"),
       Span(<<"*">>, TRUE, "em"),
       Span(<<"_">>, TRUE, "em"),
       Link >>
\* The last position of the match of a span pattern that starts at p, 0 when
\* none starts there: the body ends at the first c after the opening.
spanEnd(r, s, p) ==
    LET c == r.open[1]
        n == Len(r.open)
        stops == {q \in (p + n)..Len(s) : s[q] = c}
        q == IF stops = {} THEN 0 ELSE Least(stops)
    IN  IF /\ at(s, p, r.open)
           /\ r.alone => (p = 1 \/ s[p - 1] # c)
           /\ q > p + n
           /\ at(s, q, r.open)
           /\ r.alone => (q + n > Len(s) \/ s[q + n] # c)
        THEN q + n - 1 ELSE 0

\* (?![^<]*>) at position k: no '>' ahead with no '<' before it.
tagAhead(s, k) ==
    \E j \in k..Len(s) :
        /\ s[j] = ">"
        /\ \A o \in k..(j - 1) : s[o] # "<" /\ s[o] \notin Markup

\* /(https?:\/\/[^\s)]+)(?![^<]*>)/: the longest run after the scheme that
\* the lookahead accepts.
linkEnd(s, p) ==
    LET body == {s[j] : j \in 1..Len(s)} \ (Whitespace \union {")"})
        m == skip(s, p + 1, body) - 1
        ends == {e \in (p + 1)..m : ~tagAhead(s, e + 1)}
    IN  IF s[p] \in Schemes /\ ends # {}
        THEN CHOOSE e \in ends : \A o \in ends : e >= o
        ELSE 0

matchEnd(r, s, p) == IF r.link THEN linkEnd(s, p) ELSE spanEnd(r, s, p)

\* What replaces the match s[p..e]: '<tag>$1</tag>', and for a link
\* '<a class="underline" href="$1" target="_blank" rel="...">$1</a>'.
replacement(r, s, p, e) ==
    IF r.link
    THEN <<AOpen>> \o SubSeq(s, p, e) \o <<AMid>> \o SubSeq(s, p, e)
         \o <<AClose>>
    ELSE <<r.before>> \o SubSeq(s, p + Len(r.open), e - Len(r.open))
         \o <<r.after>>

\* out.replace(/pattern/g, ...): the matches from left to right, each search
\* starting after the match before it.
RECURSIVE replaceFrom(_, _, _)
replaceFrom(r, s, i) ==
    LET starts == {p \in i..Len(s) : matchEnd(r, s, p) > 0}
    IN  IF starts = {}
        THEN SubSeq(s, i, Len(s))
        ELSE LET p == Least(starts)
                 e == matchEnd(r, s, p)
             IN  SubSeq(s, i, p - 1) \o replacement(r, s, p, e)
                 \o replaceFrom(r, s, e + 1)

RECURSIVE substitute(_, _)
substitute(out, rules) ==
    IF rules = <<>> THEN out
    ELSE substitute(replaceFrom(Head(rules), out, 1), Tail(rules))

inline(s) == substitute(esc(s), Substitutions)

isFence(line) == startsWith(trim(line), Fence)
isBlank(line) == trim(line) = <<>>

\* The first line from i on that hits (hits[j] tells whether line j passes
\* the test of the loop), Len(hits) + 1 if none.
firstLine(hits, i) ==
    Least({j \in i..(Len(hits) + 1) : j > Len(hits) \/ hits[j]})

\* `<li>${inline(text)}</li>` for the lines i..j-1, text the line without
\* the marker, marker[k] its length on line k.
items(lines, i, j, marker) ==
    join([k \in 1..(j - i) |->
            <<"<li>">>
            \o inline(slice(lines[i + k - 1], marker[i + k - 1]))
            \o <<"</li>">>], <<>>)

\* The while loop over the lines, from line i on: one block and the rest.
RECURSIVE renderBlocks(_, _)
renderBlocks(lines, i) ==
    LET L == 1..Len(lines)
        bullets == [k \in L |-> bulletPattern(lines[k])]
        nums == [k \in L |-> numPattern(lines[k])]
    IN
    IF i > Len(lines) THEN <<>>
    ELSE IF isFence(lines[i]) THEN
        LET j == firstLine([k \in L |-> isFence(lines[k])], i + 1)
        IN  <<"<pre><code>">>
            \o esc(join(SubSeq(lines, i + 1, j - 1), <<LF>>))
            \o <<"</code></pre>">>
            \o renderBlocks(lines, IF j <= Len(lines) THEN j + 1 ELSE j)
    ELSE IF bulletPattern(lines[i]) > 0 THEN
        LET j == firstLine([k \in L |-> bullets[k] = 0], i)
        IN  <<"<ul class=\"list-disc pl-5\">">>
            \o items(lines, i, j, bullets) \o <<"</ul>">>
            \o renderBlocks(lines, j)
    ELSE IF numPattern(lines[i]) > 0 THEN
        LET j == firstLine([k \in L |-> nums[k] = 0], i)
        IN  <<"<ol class=\"list-decimal pl-5\">">>
            \o items(lines, i, j, nums) \o <<"</ol>">>
            \o renderBlocks(lines, j)
    ELSE
        LET j == firstLine([k \in L |-> isBlank(lines[k])], i)
            k == firstLine([n \in L |-> ~isBlank(lines[n])], j)
        IN  (IF j > i
             THEN <<"<p>">> \o inline(join(SubSeq(lines, i, j - 1), <<" ">>))
                  \o <<"</p>">>
             ELSE <<>>)
            \o renderBlocks(lines, k)

renderChatHtml(md) == renderBlocks(splitLines(md), 1)

\* The texts a delta brings, written as the buffer is.
Pieces ==
    { <<"x">>, <<" ">>, <<LF>>, <<"<">>, <<"&">>, <<"\"">>, <<Backtick>>, <<"*">>,
      <<"*", "*", "x", "*", "*">>, <<"http://", "a">>, <<"-", " ">>,
      <<"1", ".", " ">>, Fence \o <<LF>> }

\* ------------------------------------------------- /api/chat: the relay
\* The payloads of the upstream, written short: (c) stands for
\* {"choices":[{"delta":{"content":"c"}}]} and () for a payload with no
\* content, as the one that carries the role.
ChoicePayload(c) == <<"(", c, ")">>
Contents == Letters \union {" ", "<", ">"}
\* JSON.parse(data) and json.choices?.[0]?.delta?.content || ''
ParseChoice(data) ==
    IF Len(data) = 3 /\ data[1] = "(" /\ data[2] \in Contents /\ data[3] = ")"
    THEN [threw |-> FALSE, delta |-> <<data[2]>>]
    ELSE IF data = <<"(", ")">>
         THEN [threw |-> FALSE, delta |-> <<>>]
         ELSE [threw |-> TRUE, delta |-> <<>>]

\* if (delta) controller.enqueue(`data: ${JSON.stringify({ delta })}\n\n`)
forward(st, json) ==
    IF json.threw \/ json.delta = <<>>
    THEN st
    ELSE [st EXCEPT !.out = Append(@, EventOf(DeltaPayload(json.delta[1])))]

\* controller.enqueue('data: [DONE]\n\n'); controller.close()
finish(st) == [out |-> Append(st.out, EventOf(DoneToken)), closed |-> TRUE]

\* A relay that goes on after the sentinel.
relayLine_GoesOn(st, line) ==
    LET trimmed == trim(line)
        data == trim(slice(trimmed, 5))
    IN  IF ~startsWith(trimmed, DataPrefix)
        THEN st
        ELSE IF data = DoneToken
             THEN [st EXCEPT !.out = Append(@, EventOf(DoneToken))]
             ELSE forward(st, ParseChoice(data))

\* The body of `for (const line of lines)`; the return at the sentinel
\* leaves the lines after it unread.
relayLine(st, line) ==
    LET trimmed == trim(line)
        data == trim(slice(trimmed, 5))
    IN  IF st.closed \/ ~startsWith(trimmed, DataPrefix)
        THEN st
        ELSE IF data = DoneToken
             THEN finish(st)
             ELSE forward(st, ParseChoice(data))

RECURSIVE relayLines(_, _)
relayLines(st, lines) ==
    IF lines = <<>>
    THEN st
    ELSE relayLines(relayLine(st, Head(lines)), Tail(lines))

\* After the loop: the rest of the buffer is parsed as it stands, then the
\* sentinel is sent and the stream closed.
flush(st, buffer) ==
    finish(IF buffer = <<>> THEN st ELSE forward(st, ParseChoice(buffer)))

\* The bodies of the upstream: events closed by a blank line, but for a last
\* line that the upstream closes the stream on.
UpEvent(c) == EventOf(ChoicePayload(c))
UpstreamBodies ==
    { EventOf(<<"(", ")">>) \o UpEvent("x") \o EventOf(DoneToken),
      UpEvent("x") \o EventOf(<<"(", Lead, Cont, ")">>),
      UpEvent("x") \o EventOf(DoneToken) \o UpEvent("y"),
      UpEvent("x") \o DataPrefix \o <<" ">> \o ChoicePayload("y"),
      UpEvent("x") \o ChoicePayload("y"),
      UpEvent("y") \o DataPrefix \o <<" ">> \o DoneToken }
\* The chunks of the stream sent when no key is configured.
MockDeltas == <<"No API key configured. ",
                "Set OPENAI_API_KEY to enable live responses.">>

\* --------------------------------------- /api/text-process-stream: the route
\* The characters of s at the positions K, in order.
keep(s, K) ==
    [k \in 1..Cardinality(K) |->
        s[CHOOSE i \in K : Cardinality({j \in K : j < i}) = k - 1]]

\* .replace(/<[^>]*>/g, ''): a match runs from the first '<' after the '>'
\* before it to the next '>'.
stripTags(s) ==
    keep(s, {i \in 1..Len(s) :
                ~\E q \in i..Len(s) : \E p \in 1..i :
                    /\ s[q] = ">" /\ s[p] = "<"
                    /\ \A m \in p..(q - 1) : s[m] # ">"})

\* .replace(/\n\s*\n/g, '\n'): of a run of whitespace with several line
\* feeds, what follows the first one up to the last one goes.
collapseBlankLines(s) ==
    keep(s, {i \in 1..Len(s) :
                ~\E a \in 1..(i - 1) : \E b \in i..Len(s) :
                    /\ s[a] = LF /\ s[b] = LF
                    /\ \A m \in a..b : s[m] \in Whitespace})

\* parseTextProcessResponse(content, operation).processedText; suggestions
\* and operation are fixed by the operation asked for.
parseTextProcessResponse(content) ==
    trim(collapseBlankLines(stripTags(trim(content))))

\* An event of the response: `data: {"type":...}\n\n`, type content with
\* the delta, complete with the processed text, error.
TypedEvent(type, text) == [type |-> type, text |-> text]

\* A line of the loop `for (const line of lines)`: whether it passes the
\* startsWith('data:') test, and trimmed.slice(5).trim().
isDataLine(line) == startsWith(trim(line), DataPrefix)
dataOf(line) == trim(slice(trim(line), 5))

\* parsed.choices?.[0]?.delta?.content of a line, <<>> for a line that is
\* skipped: no data line, no JSON, no content.
contentOf(line) ==
    IF isDataLine(line) THEN ParseChoice(dataOf(line)).delta ELSE <<>>

\* The loop `for (const line of lines)`: the lines before the first [DONE]
\* line that carry content add it to fullContent and are forwarded as
\* content events; closed: a [DONE] line was met, the loop returns there.
processDataLines(st, lines) ==
    LET d == Least({k \in 1..(Len(lines) + 1) :
                       k > Len(lines)
                       \/ (isDataLine(lines[k]) /\ dataOf(lines[k]) = DoneToken)})
    IN  [out |-> st.out
                 \o SelectSeq([k \in 1..(d - 1) |->
                                  TypedEvent("content", contentOf(lines[k]))],
                              LAMBDA event : event.text # <<>>),
         fullContent |-> st.fullContent
                 \o SelectSeq([k \in 1..(d - 1) |->
                                  IF contentOf(lines[k]) = <<>>
                                  THEN "" ELSE contentOf(lines[k])[1]],
                              LAMBDA c : c # ""),
         closed |-> d <= Len(lines)]

\* At the [DONE] line: the complete event with the text processed from
\* fullContent, and controller.close().
complete(st) ==
    IF st.closed
    THEN [st EXCEPT !.out = Append(@, TypedEvent("complete",
                                 parseTextProcessResponse(st.fullContent)))]
    ELSE st

ProcessBodies ==
    UpstreamBodies \union
    { UpEvent(" ") \o UpEvent("x") \o EventOf(DoneToken),
      UpEvent("<") \o UpEvent("x") \o UpEvent(">") \o UpEvent("y")
      \o EventOf(DoneToken) }
\* Why the route answers with a single error event and no stream.
Refusals == {"text", "length", "key", "upstream", "internal"}

\* --------------------------------------------- errorHandler: classification
\* A value that is thrown, by what handle() reads of it: whether it is a
\* TypeError, its message (a sequence of words, <<>> for none), its status
\* (0 for none), whether it has a response, the status of the response and
\* the status property of response.data (0 for none). An AppError has a
\* type and details besides, details kept as its status property.
ErrorValue(typeError, message, status, response, responseStatus, dataStatus) ==
    [typeError |-> typeError, message |-> message, status |-> status,
     response |-> response, responseStatus |-> responseStatus,
     dataStatus |-> dataStatus, type |-> "", detailStatus |-> 0]
AppError(type, message, detailStatus) ==
    [typeError |-> FALSE, message |-> message, status |-> 0,
     response |-> FALSE, responseStatus |-> 0, dataStatus |-> 0,
     type |-> type, detailStatus |-> detailStatus]
\* error: null
NoError == AppError("", <<>>, 0)

NETWORK == "NETWORK_ERROR"
API == "API_ERROR"
VALIDATION == "VALIDATION_ERROR"
OPENAI == "OPENAI_ERROR"
UNKNOWN == "UNKNOWN_ERROR"

\* message.includes(word); an absent message has no includes to call
includes(message, word) == \E i \in 1..Len(message) : message[i] = word

\* The messages of handle(), in English words.
ApiMessage(status) ==
    CASE status = 400 -> <<"bad", "request", "parameters">>
      [] status = 401 -> <<"unauthorized">>
      [] status = 403 -> <<"access", "denied">>
      [] status = 404 -> <<"resource", "not", "found">>
      [] status = 429 -> <<"too", "many", "requests">>
      [] status = 500 -> <<"internal", "server", "error">>
      [] status = 502 -> <<"gateway", "error">>
      [] status = 503 -> <<"service", "unavailable">>
      [] OTHER -> <<"request", "failed", "(status)">>

\* ErrorHandler.handle(error), the timestamp left out
ErrorHandler_handle(error) ==
    IF error.typeError /\ includes(error.message, "fetch")
    THEN AppError(NETWORK, <<"network", "connection", "failed">>, 0)
    ELSE IF error.status # 0 \/ error.response
    THEN AppError(API,
                  ApiMessage(IF error.status # 0 THEN error.status
                             ELSE error.responseStatus),
                  \* details: error.response?.data || error.message
                  IF error.response THEN error.dataStatus ELSE 0)
    ELSE IF includes(error.message, "OpenAI") \/ includes(error.message, "API key")
    THEN AppError(OPENAI, <<"AI", "service", "unavailable", "check", "API",
                            "configuration">>, 0)
    ELSE IF includes(error.message, "validation")
            \/ includes(error.message, "invalid")
    THEN AppError(VALIDATION, <<"input", "format", "wrong">>, 0)
    ELSE AppError(UNKNOWN,
                  IF error.message # <<>> THEN error.message
                  ELSE <<"unknown", "error">>,
                  \* details: error
                  error.status)

\* A shouldRetry that goes by the type alone.
ErrorHandler_shouldRetry_AnyApi(error) ==
    error.type = NETWORK \/ error.type = API

\* ErrorHandler.shouldRetry(error)
ErrorHandler_shouldRetry(error) ==
    error.type = NETWORK \/ (error.type = API /\ error.detailStatus >= 500)

RECURSIVE pow(_, _)
pow(b, n) == IF n = 0 THEN 1 ELSE b * pow(b, n - 1)

\* ErrorLogger.log(error): unshift, and the newest maxLogs are kept.
maxLogs == 100
ErrorLogger_log(theLogs, error) ==
    IF Len(theLogs) + 1 > maxLogs
    THEN SubSeq(<<error>> \o theLogs, 1, maxLogs)
    ELSE <<error>> \o theLogs

\* withRetry: `attempt === maxAttempts - 1`, with one attempt too many
lastAttempt_OneMore(attempt, maxAttempts) == attempt = maxAttempts
lastAttempt(attempt, maxAttempts) == attempt = maxAttempts - 1

\* The defaults of withRetry(operation, maxAttempts = 3, baseDelay = 1000)
DefaultMaxAttempts == 3
DefaultBaseDelay == 1000
BaseDelays == {DefaultBaseDelay, 250}

\* What an operation throws.
Thrown ==
    { ErrorValue(TRUE, <<"Failed", "to", "fetch">>, 0, FALSE, 0, 0),
      ErrorValue(FALSE, <<"Service", "Unavailable">>, 503, FALSE, 0, 0),
      ErrorValue(FALSE, <<"Not", "Found">>, 404, FALSE, 0, 0),
      ErrorValue(FALSE, <<"Request", "failed">>, 0, TRUE, 500, 500),
      ErrorValue(FALSE, <<"OpenAI", "quota", "exceeded">>, 0, FALSE, 0, 0),
      ErrorValue(FALSE, <<"invalid", "input">>, 0, FALSE, 0, 0),
      ErrorValue(FALSE, <<"boom">>, 0, FALSE, 0, 0) }

VARIABLES
    now,              \* Date.now()
    useLocalStorage,  \* the cache selected: localStorageCache or ClientCache
    mem,              \* ClientCache.cache: key -> {data, expires}
    ls,               \* localStorage: key -> text
    ev,               \* the call made last and what it returned
    lastSet,          \* the set() made last, with no set(), delete() or clear()
                      \* since: its key and data, the expiry now + ttl, ok: the
                      \* store took the write, over: it came on an entry that
                      \* an earlier set() of the key had written
    hook,             \* the useApiCache instance: its key, enabled and ttl
                      \* arguments and its data, loading and error state
    fetches,          \* the producer invocations that have not settled
    calls,            \* the number of producer invocations made
    messages,         \* ChatSidebar: the messages state, a list of {id, role,
                      \* content}
    loading,          \* ChatSidebar: the loading state
    seenLoading,      \* the loading that send() of the last render closes over
    sessions,         \* the send() calls that passed the guard, in order: where
                      \* each stands, its response body, reader and assistant
    uuids,            \* the number of crypto.randomUUID() calls made
    reads,            \* the number of chunks the readers have delivered
    relay,            \* /api/chat, one request: the upstream body and the
                      \* reader's place in it, the line buffer, and the
                      \* response stream
    process,          \* /api/text-process-stream, one request: as relay,
                      \* and the content gathered
    retry,            \* one RetryManager.withRetry call: its arguments, who
                      \* made it, the attempt, the calls of the operation
                      \* and what they threw, the delays waited, lastError
    errorHook,        \* useErrorHandler: error, isRetrying, and shown, the
                      \* error that retry() of the last render closes over
    logs,             \* ErrorLogger.logs
    render            \* one assistant message on screen: md, its content,
                      \* deltas, the number of deltas it grew by, and html,
                      \* what renderChatHtml(md) gave

cacheVars == <<mem, ls, lastSet>>
hookVars == <<hook, fetches, calls>>
chatVars == <<messages, loading, seenLoading, sessions, uuids, reads>>
otherVars == <<render, relay, process, retry, errorHook, logs>>
vars == <<now, useLocalStorage, mem, ls, ev, lastSet, hook, fetches, calls,
          chatVars, otherVars>>

\* by, id: for a settled invocation, what started it and its number.
Event(op, key, ret) == [op |-> op, key |-> key, ret |-> ret, by |-> "", id |-> 0]

NoSet == [some |-> FALSE, key |-> NoKey, data |-> Null, expires |-> Null,
          ok |-> FALSE, over |-> FALSE]

NoRequest == [pc |-> "idle", body |-> <<>>, pos |-> 0, pending |-> FALSE,
              buffer |-> <<>>, out |-> <<>>, reads |-> 0]

NoProcessRequest ==
    [pc |-> "idle", body |-> <<>>, pos |-> 0, pending |-> FALSE,
     buffer |-> <<>>, out |-> <<>>, reads |-> 0, fullContent |-> <<>>]

NoRun == [pc |-> "idle", by |-> "", maxAttempts |-> 0, baseDelay |-> 0,
          attempt |-> 0, invocations |-> 0, thrown |-> <<>>, waits |-> <<>>,
          lastError |-> NoError]

Init ==
    /\ now = 1
    /\ useLocalStorage \in BOOLEAN
    /\ mem = Empty
    /\ ls = Empty
    /\ ev = Event("init", NoKey, Null)
    /\ lastSet = NoSet
    /\ hook = [mounted |-> FALSE, key |-> NoKey, enabled |-> FALSE, ttl |-> Num(0),
               data |-> Null, loading |-> FALSE, error |-> Null]
    /\ fetches = {}
    /\ calls = 0
    /\ messages = <<>>
    /\ loading = FALSE
    /\ seenLoading = FALSE
    /\ sessions = <<>>
    /\ uuids = 0
    /\ reads = 0
    /\ render = [md |-> <<>>, deltas |-> 0, html |-> renderChatHtml(<<>>)]
    /\ relay = NoRequest
    /\ process = NoProcessRequest
    /\ retry = NoRun
    /\ errorHook = [error |-> NoError, isRetrying |-> FALSE, shown |-> NoError]
    /\ logs = <<>>

\* ------------------------------------------------- the cache client (Spec)
\* Time passes.
Tick ==
    /\ now < MaxTime
    /\ now' = now + 1
    /\ ev' = Event("tick", NoKey, Null)
    /\ UNCHANGED <<useLocalStorage, mem, ls, lastSet, hook, fetches, calls,
                 chatVars, otherVars>>

\* cache.set(key, data, ttl)
CallSet(key, data, ttl, accept) ==
    /\ IF useLocalStorage
       THEN /\ ls' = localStorageCache_set(ls, key, data, ttl, now, accept)
            /\ mem' = mem
       ELSE /\ mem' = ClientCache_set(mem, key, data, ttl, now)
            /\ ls' = ls
    /\ lastSet' = [some |-> TRUE, key |-> key, data |-> data,
                   expires |-> Plus(now, ttl),
                   ok |-> (~useLocalStorage
                           \/ (accept /\ ~JSON_stringify(data, Plus(now, ttl)).threw)),
                   over |-> (lastSet.some /\ lastSet.key = key
                             /\ (lastSet.ok \/ lastSet.over))]
    /\ ev' = Event("set", key, Undefined)
    /\ UNCHANGED <<now, useLocalStorage, hook, fetches, calls,
                 chatVars, otherVars>>

\* cache.get(key)
CallGet(key) ==
    /\ IF useLocalStorage
       THEN LET r == localStorageCache_get(ls, key, now)
            IN  /\ ls' = r.store
                /\ mem' = mem
                /\ ev' = Event("get", key, r.ret)
       ELSE LET r == ClientCache_get(mem, key, now)
            IN  /\ mem' = r.map
                /\ ls' = ls
                /\ ev' = Event("get", key, r.ret)
    /\ UNCHANGED <<now, useLocalStorage, lastSet, hook, fetches, calls,
                 chatVars, otherVars>>

\* cache.has(key)
CallHas(key) ==
    /\ IF useLocalStorage
       THEN LET r == localStorageCache_has(ls, key, now)
            IN  /\ ls' = r.store
                /\ mem' = mem
                /\ ev' = Event("has", key, r.ret)
       ELSE LET r == ClientCache_has(mem, key, now)
            IN  /\ mem' = r.map
                /\ ls' = ls
                /\ ev' = Event("has", key, r.ret)
    /\ UNCHANGED <<now, useLocalStorage, lastSet, hook, fetches, calls,
                 chatVars, otherVars>>

\* cache.delete(key)
CallDelete(key) ==
    /\ IF useLocalStorage
       THEN ls' = localStorageCache_delete(ls, key) /\ mem' = mem
       ELSE mem' = ClientCache_delete(mem, key) /\ ls' = ls
    /\ lastSet' = IF lastSet.key = key THEN NoSet ELSE lastSet
    /\ ev' = Event("delete", key, Undefined)
    /\ UNCHANGED <<now, useLocalStorage, hook, fetches, calls,
                 chatVars, otherVars>>

\* cache.clear()
CallClear ==
    /\ IF useLocalStorage
       THEN ls' = localStorageCache_clear(ls) /\ mem' = mem
       ELSE mem' = ClientCache_clear(mem) /\ ls' = ls
    /\ lastSet' = NoSet
    /\ ev' = Event("clear", NoKey, Undefined)
    /\ UNCHANGED <<now, useLocalStorage, hook, fetches, calls,
                 chatVars, otherVars>>

\* ClientCache.size()
CallSize ==
    /\ ~useLocalStorage
    /\ ev' = Event("size", NoKey, Num(ClientCache_size(mem)))
    /\ UNCHANGED <<now, useLocalStorage, mem, ls, lastSet, hook, fetches, calls,
                 chatVars, otherVars>>

\* Other code of the page writes localStorage directly (the editor's
\* localStorage.setItem('doc-html', html), or anything else of the origin).
ForeignWrite(key, text) ==
    /\ useLocalStorage
    /\ ls' = With(ls, key, text)
    /\ lastSet' = IF lastSet.key = key THEN NoSet ELSE lastSet
    /\ ev' = Event("foreign", key, Undefined)
    /\ UNCHANGED <<now, useLocalStorage, mem, hook, fetches, calls,
                 chatVars, otherVars>>

Next ==
    \/ Tick
    \/ \E key \in Keys, data \in Values, ttl \in TTLs, accept \in BOOLEAN :
           /\ (accept \/ useLocalStorage)
           /\ CallSet(key, data, ttl, accept)
    \/ \E key \in Keys : CallGet(key)
    \/ \E key \in Keys : CallHas(key)
    \/ \E key \in Keys : CallDelete(key)
    \/ CallClear
    \/ CallSize
    \/ \E key \in Keys, text \in ForeignTexts : ForeignWrite(key, text)

Spec == Init /\ [][Next]_vars

\* ----------------------------------------------------- useApiCache (SpecHook)
\* What producers resolve with and reject with.
Results == {Obj(1), Num(0)}
Errors == {Err(1)}

\* const cache = useLocalStorage ? localStorageCache : ClientCache, and the
\* calls the hook makes on it: what the call returns (ret) and the contents
\* of the two caches after it.
cache_get(k) ==
    IF useLocalStorage
    THEN LET r == localStorageCache_get(ls, k, now)
         IN  [ret |-> r.ret, mem |-> mem, ls |-> r.store]
    ELSE LET r == ClientCache_get(mem, k, now)
         IN  [ret |-> r.ret, mem |-> r.map, ls |-> ls]

cache_set(k, result, ttl, accept) ==
    IF useLocalStorage
    THEN [mem |-> mem, ls |-> localStorageCache_set(ls, k, result, ttl, now, accept)]
    ELSE [mem |-> ClientCache_set(mem, k, result, ttl, now), ls |-> ls]

cache_delete(k) ==
    IF useLocalStorage
    THEN [mem |-> mem, ls |-> localStorageCache_delete(ls, k)]
    ELSE [mem |-> ClientCache_delete(mem, k), ls |-> ls]

\* fetcher(): one more invocation, with the key and ttl its callbacks close
\* over and what started it.
Fetch(k, ttl, by) == [id |-> calls + 1, key |-> k, ttl |-> ttl, by |-> by]

\* The component renders with key k and enabled en (the first render also
\* fixes ttl); a dependency of the effect changed, so the effect runs.
Render(k, en, ttl) ==
    /\ IF hook.mounted
       THEN ttl = hook.ttl /\ (k # hook.key \/ en # hook.enabled)
       ELSE TRUE
    /\ IF ~en
       THEN /\ hook' = [hook EXCEPT !.mounted = TRUE, !.key = k, !.enabled = en,
                                    !.ttl = ttl]
            /\ ev' = Event("effect", k, Undefined)
            /\ UNCHANGED <<mem, ls, fetches, calls>>
       ELSE LET c == cache_get(k)
            IN  /\ mem' = c.mem
                /\ ls' = c.ls
                /\ ev' = Event("effect", k, c.ret)
                /\ IF Truthy(c.ret)
                   THEN /\ hook' = [hook EXCEPT !.mounted = TRUE, !.key = k,
                                                !.enabled = en, !.ttl = ttl,
                                                !.data = c.ret]
                        /\ UNCHANGED <<fetches, calls>>
                   ELSE /\ calls < MaxCalls
                        /\ hook' = [hook EXCEPT !.mounted = TRUE, !.key = k,
                                                !.enabled = en, !.ttl = ttl,
                                                !.loading = TRUE, !.error = Null]
                        /\ fetches' = fetches \cup {Fetch(k, ttl, "effect")}
                        /\ calls' = calls + 1
    /\ UNCHANGED <<now, useLocalStorage, lastSet, chatVars, otherVars>>

\* A bug: refetch leaves the cache entry of the key in place.
Refetch_KeepsEntry ==
    /\ hook.mounted
    /\ calls < MaxCalls
    /\ hook' = [hook EXCEPT !.loading = TRUE, !.error = Null]
    /\ fetches' = fetches \cup {Fetch(hook.key, hook.ttl, "refetch")}
    /\ calls' = calls + 1
    /\ ev' = Event("refetch", hook.key, Undefined)
    /\ UNCHANGED <<now, useLocalStorage, mem, ls, lastSet, chatVars, otherVars>>

\* refetch()
Refetch ==
    /\ hook.mounted
    /\ calls < MaxCalls
    /\ LET c == cache_delete(hook.key)
       IN  mem' = c.mem /\ ls' = c.ls
    /\ hook' = [hook EXCEPT !.loading = TRUE, !.error = Null]
    /\ fetches' = fetches \cup {Fetch(hook.key, hook.ttl, "refetch")}
    /\ calls' = calls + 1
    /\ ev' = Event("refetch", hook.key, Undefined)
    /\ UNCHANGED <<now, useLocalStorage, lastSet, chatVars, otherVars>>

\* The producer's promise resolves: .then(result => ...), .finally(...)
Resolve(f, result, accept) ==
    /\ f \in fetches
    /\ LET c == cache_set(f.key, result, f.ttl, accept)
       IN  mem' = c.mem /\ ls' = c.ls
    /\ hook' = [hook EXCEPT !.data = result, !.loading = FALSE]
    /\ fetches' = fetches \ {f}
    /\ ev' = [op |-> "resolve", key |-> f.key, ret |-> result, by |-> f.by,
              id |-> f.id]
    /\ UNCHANGED <<now, useLocalStorage, lastSet, calls, chatVars, otherVars>>

\* A bug: the failure handler also resets data.
Reject_DropsData(f, err) ==
    /\ f \in fetches
    /\ hook' = [hook EXCEPT !.error = err, !.loading = FALSE, !.data = Null]
    /\ fetches' = fetches \ {f}
    /\ ev' = [op |-> "reject", key |-> f.key, ret |-> err, by |-> f.by,
              id |-> f.id]
    /\ UNCHANGED <<now, useLocalStorage, mem, ls, lastSet, calls, chatVars, otherVars>>

\* The producer's promise rejects: .catch(err => ...), .finally(...)
Reject(f, err) ==
    /\ f \in fetches
    /\ hook' = [hook EXCEPT !.error = err, !.loading = FALSE]
    /\ fetches' = fetches \ {f}
    /\ ev' = [op |-> "reject", key |-> f.key, ret |-> err, by |-> f.by,
              id |-> f.id]
    /\ UNCHANGED <<now, useLocalStorage, mem, ls, lastSet, calls, chatVars, otherVars>>

NextHook ==
    \/ Tick
    \/ \E k \in Keys, en \in BOOLEAN, ttl \in TTLs : Render(k, en, ttl)
    \/ Refetch
    \/ \E f \in fetches, result \in Results, accept \in BOOLEAN :
           /\ (accept \/ useLocalStorage)
           /\ Resolve(f, result, accept)
    \/ \E f \in fetches, err \in Errors : Reject(f, err)

SpecHook == Init /\ [][NextHook]_vars

\* ------------------------------------------------- ChatSidebar.send (SpecSSE)
\* What the user typed, and the text of the error message.
Input == <<"h", "i">>
ErrorText == <<"Sorry, something went wrong.">>

\* crypto.randomUUID(): an id no earlier call returned.
randomUUID == uuids + 1
Message(id, role, content) == [id |-> id, role |-> role, content |-> content]

\* A bug: the update takes the message out and puts it back at the end.
replaceMessage_MovesToEnd(m, assistant) ==
    SelectSeq(m, LAMBDA x : x.id # assistant.id) \o <<assistant>>

\* m.map((x) => (x.id === assistant.id ? assistant : x))
replaceMessage(m, assistant) ==
    [i \in 1..Len(m) |-> IF m[i].id = assistant.id THEN assistant ELSE m[i]]

\* A send() that has passed the guard and awaits fetch.
NewSession ==
    [pc |-> "fetch", body |-> <<>>, pos |-> 0, pending |-> FALSE,
     assistantId |-> 0, acc |-> NoText, outcome |-> ""]
\* A send() that has returned: its reader, decoder and assistant are gone.
Ended(outcome) == [NewSession EXCEPT !.pc = "ended", !.outcome = outcome]
ChatEvent(op, i) == [op |-> op, key |-> NoKey, ret |-> Null, by |-> "", id |-> i]
restUnchanged ==
    UNCHANGED <<now, useLocalStorage, cacheVars, hookVars, otherVars>>

\* send(), with text in the input: it returns at once when the loading it
\* closes over is true; otherwise it appends the user message, sets loading
\* and calls fetch.
Send ==
    /\ IF seenLoading
       THEN /\ ev' = ChatEvent("ignored", 0)
            /\ UNCHANGED chatVars
       ELSE /\ Len(sessions) < MaxSends
            /\ messages' = Append(messages, Message(randomUUID, "user", Input))
            /\ uuids' = uuids + 1
            /\ loading' = TRUE
            /\ sessions' = Append(sessions, NewSession)
            /\ ev' = ChatEvent("send", Len(sessions) + 1)
            /\ UNCHANGED <<seenLoading, reads>>
    /\ restUnchanged

\* The component renders again: send() now closes over the current loading.
Rerender ==
    /\ seenLoading # loading
    /\ seenLoading' = loading
    /\ ev' = ChatEvent("render", 0)
    /\ UNCHANGED <<messages, loading, sessions, uuids, reads>>
    /\ restUnchanged

\* catch (e) { setMessages(... 'Sorry, something went wrong.') } finally
\* { setLoading(false) }
failed(i) ==
    /\ messages' = Append(messages, Message(randomUUID, "assistant", ErrorText))
    /\ uuids' = uuids + 1
    /\ loading' = FALSE
    /\ sessions' = [sessions EXCEPT ![i] = Ended("failed")]

\* fetch rejects, or the response is not ok or has no body.
FetchFail(i) ==
    /\ sessions[i].pc = "fetch"
    /\ failed(i)
    /\ ev' = ChatEvent("fetchfail", i)
    /\ UNCHANGED <<seenLoading, reads>>
    /\ restUnchanged

\* The response arrives: reader and decoder are made and the empty assistant
\* message is appended.
Respond(i, body) ==
    /\ sessions[i].pc = "fetch"
    /\ messages' = Append(messages, Message(randomUUID, "assistant", <<>>))
    /\ uuids' = uuids + 1
    /\ sessions' = [sessions EXCEPT ![i].pc = "read", ![i].body = body,
                                    ![i].assistantId = randomUUID]
    /\ ev' = ChatEvent("response", i)
    /\ UNCHANGED <<loading, seenLoading, reads>>
    /\ restUnchanged

\* reader.read() delivers the next n bytes of the body: one pass of the loop.
ReadChunk(i, n) ==
    LET se == sessions[i]
        value == SubSeq(se.body, se.pos + 1, se.pos + n)
        chunk == TextDecoder_decode(se.pending, value)
        acc == processChunk(se.acc, chunk.text)
    IN  /\ se.pc = "read"
        /\ reads < MaxReads
        /\ n \in 1..(Len(se.body) - se.pos)
        /\ n <= MaxPiece \/ EndsEvent(se.body, se.pos + n)
        /\ sessions' = [sessions EXCEPT ![i].pos = se.pos + n,
                                        ![i].pending = chunk.pending,
                                        ![i].acc = acc]
        /\ messages' = IF acc.content = se.acc.content
                       THEN messages
                       ELSE replaceMessage(messages,
                                Message(se.assistantId, "assistant", acc.content))
        /\ reads' = reads + 1
        /\ ev' = ChatEvent("chunk", i)
        /\ UNCHANGED <<loading, seenLoading, uuids>>
        /\ restUnchanged

\* reader.read() reports done: break, then finally { setLoading(false) }
ReadDone(i) ==
    /\ sessions[i].pc = "read"
    /\ sessions[i].pos = Len(sessions[i].body)
    /\ sessions' = [sessions EXCEPT ![i] = Ended("closed")]
    /\ loading' = FALSE
    /\ ev' = ChatEvent("done", i)
    /\ UNCHANGED <<messages, seenLoading, uuids, reads>>
    /\ restUnchanged

\* A bug: the failure handler takes the partial assistant message away.
ReadFail_DropsPartial(i) ==
    /\ sessions[i].pc = "read"
    /\ messages' = Append(SelectSeq(messages,
                              LAMBDA x : x.id # sessions[i].assistantId),
                          Message(randomUUID, "assistant", ErrorText))
    /\ uuids' = uuids + 1
    /\ loading' = FALSE
    /\ sessions' = [sessions EXCEPT ![i] = Ended("failed")]
    /\ ev' = ChatEvent("readfail", i)
    /\ UNCHANGED <<seenLoading, reads>>
    /\ restUnchanged

\* reader.read() rejects: the catch block and the finally block run.
ReadFail(i) ==
    /\ sessions[i].pc = "read"
    /\ failed(i)
    /\ ev' = ChatEvent("readfail", i)
    /\ UNCHANGED <<seenLoading, reads>>
    /\ restUnchanged

InitSSE == Init /\ ~useLocalStorage

NextSSE ==
    \/ Send
    \/ Rerender
    \/ \E i \in 1..Len(sessions) : FetchFail(i)
    \/ \E i \in 1..Len(sessions), body \in Bodies : Respond(i, body)
    \/ \E i \in 1..Len(sessions) :
           \E n \in 1..Len(sessions[i].body) : ReadChunk(i, n)
    \/ \E i \in 1..Len(sessions) : ReadDone(i)
    \/ \E i \in 1..Len(sessions) : ReadFail(i)

SpecSSE == InitSSE /\ [][NextSSE]_vars

\* ------------------------------------------- one assistant message on screen
\* A delta arrives for the assistant message and the component renders it
\* again: content + delta, and renderChatHtml of the whole content.
ShowDelta(piece) ==
    /\ render.deltas < MaxDeltas
    /\ render' = [md |-> render.md \o piece, deltas |-> render.deltas + 1,
                  html |-> renderChatHtml(render.md \o piece)]
    /\ ev' = Event("delta", NoKey, Null)
    /\ UNCHANGED <<now, useLocalStorage, cacheVars, hookVars, chatVars, relay,
                   process, retry, errorHook, logs>>

NextRender == \E piece \in Pieces : ShowDelta(piece)

SpecRender == InitSSE /\ [][NextRender]_vars

\* ------------------------------------------------- /api/chat: one request
relayUnchanged ==
    UNCHANGED <<now, useLocalStorage, cacheVars, hookVars, chatVars, render,
                process, retry, errorHook, logs>>

\* POST with no OPENAI_API_KEY: the mock stream, enqueued and closed in
\* start().
PostNoKey ==
    /\ relay.pc = "idle"
    /\ relay' = [relay EXCEPT
                   !.pc = "closed",
                   !.out = [k \in 1..Len(MockDeltas) |->
                               EventOf(DeltaPayload(MockDeltas[k]))]
                           \o <<EventOf(DoneToken)>>]
    /\ ev' = Event("mock", NoKey, Null)
    /\ relayUnchanged

\* POST, and the upstream answers with an error or without a body: a plain
\* response of status 500, no stream.
PostRefused ==
    /\ relay.pc = "idle"
    /\ relay' = [relay EXCEPT !.pc = "refused"]
    /\ ev' = Event("refused", NoKey, Null)
    /\ relayUnchanged

\* POST, and the upstream answers with a stream.
PostStream(body) ==
    /\ relay.pc = "idle"
    /\ relay' = [relay EXCEPT !.pc = "read", !.body = body]
    /\ ev' = Event("upstream", NoKey, Null)
    /\ relayUnchanged

\* reader.read() gives the next n bytes: decoded, added to the buffer, the
\* complete lines handled and the last piece kept.
RelayRead(n) ==
    /\ relay.pc = "read"
    /\ relay.reads < MaxReads
    /\ n \in 1..(Len(relay.body) - relay.pos)
    /\ \/ n <= MaxPiece
       \/ EndsEvent(relay.body, relay.pos + n)
       \/ relay.pos + n = Len(relay.body)
    /\ LET dec == TextDecoder_decode(relay.pending,
                      SubSeq(relay.body, relay.pos + 1, relay.pos + n))
           lines == split(relay.buffer \o dec.text)
           st == relayLines([out |-> relay.out, closed |-> FALSE],
                            SubSeq(lines, 1, Len(lines) - 1))
       IN  relay' = [relay EXCEPT
                       !.pc = IF st.closed THEN "closed" ELSE "read",
                       !.pos = @ + n,
                       !.pending = dec.pending,
                       !.buffer = lines[Len(lines)],
                       !.out = st.out,
                       !.reads = @ + 1]
    /\ ev' = Event("relayed", NoKey, Null)
    /\ relayUnchanged

\* reader.read() gives done: the buffer is flushed, the sentinel sent and
\* the stream closed.
RelayDone ==
    /\ relay.pc = "read"
    /\ relay.pos = Len(relay.body)
    /\ relay' = [relay EXCEPT
                   !.pc = "closed",
                   !.out = flush([out |-> relay.out, closed |-> FALSE],
                                 relay.buffer).out]
    /\ ev' = Event("upstream-end", NoKey, Null)
    /\ relayUnchanged

\* reader.read() rejects: controller.error(e).
RelayFail ==
    /\ relay.pc = "read"
    /\ relay' = [relay EXCEPT !.pc = "errored"]
    /\ ev' = Event("upstream-error", NoKey, Null)
    /\ relayUnchanged

NextRelay ==
    \/ PostNoKey
    \/ PostRefused
    \/ \E body \in UpstreamBodies : PostStream(body)
    \/ \E n \in 1..Len(relay.body) : RelayRead(n)
    \/ RelayDone
    \/ RelayFail

SpecRelay == InitSSE /\ [][NextRelay]_vars

\* --------------------------------------- /api/text-process-stream: one request
processUnchanged ==
    UNCHANGED <<now, useLocalStorage, cacheVars, hookVars, chatVars, render,
                relay, retry, errorHook, logs>>

\* The request is refused (no text, text too long, no key, the upstream
\* answers with an error, an exception): the response is one error event.
ProcessRefused(why) ==
    /\ process.pc = "idle"
    /\ process' = [process EXCEPT !.pc = "closed",
                                  !.out = <<TypedEvent("error", <<>>)>>]
    /\ ev' = Event("refused", <<why>>, Null)
    /\ processUnchanged

\* The upstream answers with a stream.
ProcessStream(body) ==
    /\ process.pc = "idle"
    /\ process' = [process EXCEPT !.pc = "read", !.body = body]
    /\ ev' = Event("upstream", NoKey, Null)
    /\ processUnchanged

\* reader.read() gives the next n bytes; the last read the bound allows
\* gives the rest of the body.
ProcessRead(n) ==
    /\ process.pc = "read"
    /\ n \in 1..(Len(process.body) - process.pos)
    /\ \/ process.reads + 1 < MaxReads
       \/ process.pos + n = Len(process.body)
    /\ \/ n <= MaxPiece
       \/ EndsEvent(process.body, process.pos + n)
       \/ process.pos + n = Len(process.body)
    /\ \E dec \in {TextDecoder_decode(process.pending,
                       SubSeq(process.body, process.pos + 1, process.pos + n))} :
       \E lines \in {split(process.buffer \o dec.text)} :
       \E met \in {processDataLines(
                       [out |-> process.out, closed |-> FALSE,
                        fullContent |-> process.fullContent],
                       SubSeq(lines, 1, Len(lines) - 1))} :
       \E st \in {complete(met)} :
           process' = [process EXCEPT
                         !.pc = IF st.closed THEN "closed" ELSE "read",
                         !.pos = @ + n,
                         !.pending = dec.pending,
                         !.buffer = lines[Len(lines)],
                         !.out = st.out,
                         !.fullContent = st.fullContent,
                         !.reads = @ + 1]
    /\ ev' = Event("relayed", NoKey, Null)
    /\ processUnchanged

\* reader.read() gives done: break, the lock is released and start()
\* returns; nothing is enqueued and the controller is not closed.
ProcessEnd ==
    /\ process.pc = "read"
    /\ process.pos = Len(process.body)
    /\ process' = [process EXCEPT !.pc = "returned"]
    /\ ev' = Event("upstream-end", NoKey, Null)
    /\ processUnchanged

\* reader.read() rejects: the error event, and the stream is closed.
ProcessFail ==
    /\ process.pc = "read"
    /\ process' = [process EXCEPT !.pc = "closed",
                                  !.out = Append(@, TypedEvent("error", <<>>))]
    /\ ev' = Event("upstream-error", NoKey, Null)
    /\ processUnchanged

NextProcess ==
    \/ \E why \in Refusals : ProcessRefused(why)
    \/ \E body \in ProcessBodies : ProcessStream(body)
    \/ \E n \in 1..Len(process.body) : ProcessRead(n)
    \/ ProcessEnd
    \/ ProcessFail

SpecProcess == InitSSE /\ [][NextProcess]_vars
\* The request arrives and the upstream goes on delivering until it ends or
\* fails; the route's own steps run whenever they can.
SpecProcessFair == SpecProcess /\ WF_vars(NextProcess)

\* ------------------------------------- RetryManager and useErrorHandler
retryUnchanged ==
    UNCHANGED <<now, useLocalStorage, cacheVars, hookVars, chatVars, render,
                relay, process>>

\* handleError(error) of the hook, called by the component.
HandleError(error) ==
    /\ Len(logs) < MaxErrors
    /\ errorHook' = [errorHook EXCEPT !.error = ErrorHandler_handle(error)]
    /\ logs' = ErrorLogger_log(logs, ErrorHandler_handle(error))
    /\ ev' = Event("handleError", NoKey, Null)
    /\ UNCHANGED retry
    /\ retryUnchanged

\* clearError()
ClearError ==
    /\ errorHook.error # NoError
    /\ errorHook' = [errorHook EXCEPT !.error = NoError]
    /\ ev' = Event("clearError", NoKey, Null)
    /\ UNCHANGED <<retry, logs>>
    /\ retryUnchanged

\* The component renders: retry is made anew over the error of the state.
ErrorRender ==
    /\ errorHook.shown # errorHook.error
    /\ errorHook' = [errorHook EXCEPT !.shown = errorHook.error]
    /\ ev' = Event("render", NoKey, Null)
    /\ UNCHANGED <<retry, logs>>
    /\ retryUnchanged

\* The first pass of the loop of withRetry: operation() is called.
FirstAttempt(by, maxAttempts, baseDelay) ==
    [NoRun EXCEPT !.pc = "calling", !.by = by, !.maxAttempts = maxAttempts,
                  !.baseDelay = baseDelay, !.invocations = 1]

\* retry(operation) of the hook: nothing without an error, else
\* setIsRetrying(true) and withRetry(operation) with its defaults.
Retry ==
    /\ retry.pc = "idle"
    /\ IF errorHook.shown = NoError
       THEN /\ ev' = Event("ignored", NoKey, Null)
            /\ UNCHANGED <<retry, errorHook>>
       ELSE /\ errorHook' = [errorHook EXCEPT !.isRetrying = TRUE]
            /\ retry' = FirstAttempt("hook", DefaultMaxAttempts,
                                     DefaultBaseDelay)
            /\ ev' = Event("retry", NoKey, Null)
    /\ UNCHANGED logs
    /\ retryUnchanged

\* RetryManager.withRetry(operation, maxAttempts, baseDelay), called by
\* other code.
WithRetry(maxAttempts, baseDelay) ==
    /\ retry.pc = "idle"
    /\ retry' = FirstAttempt("caller", maxAttempts, baseDelay)
    /\ ev' = Event("withRetry", NoKey, Null)
    /\ UNCHANGED <<errorHook, logs>>
    /\ retryUnchanged

\* operation() resolves: withRetry returns its result; in the hook
\* clearError() and, finally, setIsRetrying(false).
OperationResolves ==
    /\ retry.pc = "calling"
    /\ retry' = [retry EXCEPT !.pc = "resolved"]
    /\ errorHook' = IF retry.by = "hook"
                    THEN [errorHook EXCEPT !.error = NoError,
                                           !.isRetrying = FALSE]
                    ELSE errorHook
    /\ ev' = Event("resolved", NoKey, Null)
    /\ UNCHANGED logs
    /\ retryUnchanged

\* withRetry throws error: in the hook it goes to handleError and, finally,
\* setIsRetrying(false). The state of the hook and the logs after it.
Thrower(error, logged) ==
    IF retry.by = "hook"
    THEN [errorHook |-> [errorHook EXCEPT
                           !.error = ErrorHandler_handle(error),
                           !.isRetrying = FALSE],
          logs |-> ErrorLogger_log(logged, ErrorHandler_handle(error))]
    ELSE [errorHook |-> errorHook, logs |-> logged]

\* operation() rejects with error: classified and logged; thrown on the last
\* attempt or when it is not to be retried, else the delay is waited for.
OperationRejects(error) ==
    /\ retry.pc = "calling"
    /\ LET lastError == ErrorHandler_handle(error)
           logged == ErrorLogger_log(logs, lastError)
           throws == \/ lastAttempt(retry.attempt, retry.maxAttempts)
                     \/ ~ErrorHandler_shouldRetry(lastError)
       IN  /\ retry' = [retry EXCEPT
                          !.pc = IF throws THEN "rejected" ELSE "waiting",
                          !.lastError = lastError,
                          !.thrown = Append(@, error),
                          !.waits = IF throws THEN @
                                    ELSE Append(@, retry.baseDelay
                                                   * pow(2, retry.attempt))]
           /\ IF throws
              THEN /\ errorHook' = Thrower(lastError, logged).errorHook
                   /\ logs' = Thrower(lastError, logged).logs
              ELSE /\ logs' = logged
                   /\ UNCHANGED errorHook
           /\ ev' = Event(IF throws THEN "rejected" ELSE "failed", NoKey, Null)
    /\ retryUnchanged

\* The timer of the delay fires: the next pass of the loop calls
\* operation(); after the loop lastError is thrown.
DelayEnds ==
    /\ retry.pc = "waiting"
    /\ IF retry.attempt + 1 < retry.maxAttempts
       THEN /\ retry' = [retry EXCEPT !.pc = "calling", !.attempt = @ + 1,
                                      !.invocations = @ + 1]
            /\ ev' = Event("timer", NoKey, Null)
            /\ UNCHANGED <<errorHook, logs>>
       ELSE /\ retry' = [retry EXCEPT !.pc = "rejected", !.attempt = @ + 1]
            /\ errorHook' = Thrower(retry.lastError, logs).errorHook
            /\ logs' = Thrower(retry.lastError, logs).logs
            /\ ev' = Event("rejected", NoKey, Null)
    /\ retryUnchanged

NextRetry ==
    \/ \E error \in Thrown : HandleError(error)
    \/ ClearError
    \/ ErrorRender
    \/ Retry
    \/ \E maxAttempts \in 1..MaxAttempts, baseDelay \in BaseDelays :
           WithRetry(maxAttempts, baseDelay)
    \/ OperationResolves
    \/ \E error \in Thrown : OperationRejects(error)
    \/ DelayEnds

SpecRetry == InitSSE /\ [][NextRetry]_vars

\* ------------------------------------------------------ claims on the caches
\* The value a miss returns, by operation.
MissOf(op) == IF op = "get" THEN Null ELSE False
\* The key carries the prefix: it is the prefix followed by some suffix.
CarriesPrefix(k) ==
    \E i \in 0..Len(k) : k = Prefix \o SubSeq(k, Len(k) - i + 1, Len(k))
\* JSON text writes the value back as it is, and the expiry is a finite time.
JsonFaithful(data, expires) ==
    /\ data.t \in {"object", "number", "boolean", "null"}
    /\ expires.t = "number"
\* A read of key k that follows a set(k, ..) the store took, with no set,
\* delete or clear between them.
ReadAfterSet(k) ==
    /\ ev'.op \in {"get", "has"} /\ ev'.key = k
    /\ lastSet.some /\ lastSet.key = k /\ lastSet.ok
\* What C1 asks of such a read, made at time now: the value (true for has)
\* up to t + ttl, a miss later.
TtlAnswer ==
    IF now > lastSet.expires.n /\ lastSet.expires.t = "number"
    THEN ev'.ret = MissOf(ev'.op)
    ELSE ev'.ret = IF ev'.op = "get" THEN lastSet.data ELSE True

\* C1 as stated: for both caches and every key, value and ttl, a read up to
\* t + ttl after set(k, v, ttl) at t returns v (has: true), a later one misses.
C1_AnyValue ==
    [][\A k \in Keys : ReadAfterSet(k) => TtlAnswer]_vars

\* C1, amended: the same for ClientCache with every value and ttl, and for
\* localStorageCache with every value JSON writes back as it is and every
\* finite ttl.
C1_TtlExpiry ==
    [][\A k \in Keys :
          (ReadAfterSet(k)
           /\ (useLocalStorage => JsonFaithful(lastSet.data, lastSet.expires)))
          => TtlAnswer]_vars

\* A get at exactly t + ttl, on localStorageCache, returned the value set.
C1_Witness ==
    /\ useLocalStorage
    /\ ev.op = "get" /\ lastSet.some /\ lastSet.key = ev.key /\ lastSet.ok
    /\ lastSet.expires = Num(now)
    /\ ev.ret = lastSet.data /\ ev.ret = Obj(2)

\* C2: after set(k, v1) then set(k, v2), a get(k) before the expiry the second
\* set computed returns v2 (here for values and ttls JSON keeps), and the
\* entry held for k carries that expiry.
C2_LastWriterWins ==
    [][\A k \in Keys :
          (/\ ev'.op = "get" /\ ev'.key = k
           /\ lastSet.some /\ lastSet.key = k /\ lastSet.over
           /\ JsonFaithful(lastSet.data, lastSet.expires)
           /\ now <= lastSet.expires.n)
          => /\ ev'.ret = lastSet.data
             /\ IF useLocalStorage
                THEN k \in DOMAIN ls' /\ ls'[k].expires = lastSet.expires
                ELSE k \in DOMAIN mem' /\ mem'[k].expires = lastSet.expires]_vars

\* C3: localStorageCache.clear() removes every key that carries the prefix and
\* leaves every other key with its text.
C3_ClearNamespace ==
    [][(useLocalStorage /\ ev'.op = "clear")
       => /\ DOMAIN ls' \subseteq DOMAIN ls
          /\ \A k \in DOMAIN ls :
                IF CarriesPrefix(k)
                THEN k \notin DOMAIN ls'
                ELSE k \in DOMAIN ls' /\ ls'[k] = ls[k]]_vars

\* clear() has run and a key without the prefix still holds the entry a
\* set() wrote.
C3_Witness ==
    /\ useLocalStorage /\ ev.op = "clear"
    /\ KeyB \in DOMAIN ls /\ ls[KeyB].k = "object" /\ ls[KeyB].hasExpires
    /\ KeyA \notin DOMAIN ls

\* C4: after clear(), get(k) misses and has(k) is false for the key a set()
\* was made on, and ClientCache.size() is 0.
C4_ClearRemovesAll ==
    [][ev'.op = "clear"
       => IF useLocalStorage
          THEN \A k \in Keys :
                  (lastSet.some /\ lastSet.key = k /\ lastSet.ok)
                  => /\ localStorageCache_get(ls', k, now).ret = Null
                     /\ localStorageCache_has(ls', k, now).ret = False
          ELSE ClientCache_size(mem') = 0]_vars

\* C5: in ClientCache, time passing and size() leave the Map as it is; a
\* get(k) or has(k) leaves every other entry in place, removes the entry of
\* k when it is expired (size() drops by one), and changes nothing when it
\* is not; size() counts every entry held, expired or not.
C5_LazyExpiry ==
    [][~useLocalStorage
       => /\ (ev'.op \in {"tick", "size"} => mem' = mem)
          /\ (ev'.op = "size" => ev'.ret = Num(Cardinality(DOMAIN mem)))
          /\ \A k \in Keys :
                (ev'.op \in {"get", "has"} /\ ev'.key = k)
                => /\ \A j \in DOMAIN mem \ {k} :
                         j \in DOMAIN mem' /\ mem'[j] = mem[j]
                   /\ DOMAIN mem' \subseteq DOMAIN mem
                   /\ IF k \in DOMAIN mem /\ mem[k].expires.t = "number"
                         /\ now > mem[k].expires.n
                      THEN /\ k \notin DOMAIN mem'
                           /\ Cardinality(DOMAIN mem') = Cardinality(DOMAIN mem) - 1
                      ELSE mem' = mem]_vars

\* size() has counted two entries, both expired and neither read yet.
C5_Witness ==
    /\ ~useLocalStorage /\ ev.op = "size" /\ ev.ret = Num(2)
    /\ \A k \in DOMAIN mem : mem[k].expires.t = "number" /\ now > mem[k].expires.n

\* The text is the serialized shape: an object with an integer expires.
WellShaped(text) ==
    text.k = "object" /\ text.hasExpires /\ text.expires.t = "number"

\* C6: in localStorageCache, a read of a key whose text is not the serialized
\* shape is a miss; a read of a well-shaped entry whose expires is past is a
\* miss and removes the key.
C6_MalformedIsMiss ==
    [][\A k \in Keys :
          (useLocalStorage /\ ev'.op \in {"get", "has"} /\ ev'.key = k
           /\ k \in DOMAIN ls)
          => /\ (~WellShaped(ls[k]) => ev'.ret = MissOf(ev'.op))
             /\ (WellShaped(ls[k]) /\ now > ls[k].expires.n
                 => ev'.ret = MissOf(ev'.op) /\ k \notin DOMAIN ls')]_vars

\* C7: after a set(k, ..) the store rejected, every get(k) returns null until
\* a set(k, ..) succeeds, also when an unexpired earlier entry was held.
C7_RejectedSetMisses ==
    [][\A k \in Keys :
          (useLocalStorage /\ ev'.op = "get" /\ ev'.key = k
           /\ lastSet.some /\ lastSet.key = k /\ ~lastSet.ok)
          => ev'.ret = Null]_vars

\* -------------------------------------------------------- claims on the hook
\* The selected cache holds an entry for k that has not expired, and its value.
HeldUnexpired(k) ==
    IF useLocalStorage
    THEN k \in DOMAIN ls /\ WellShaped(ls[k]) /\ now <= ls[k].expires.n
    ELSE k \in DOMAIN mem /\ ~(mem[k].expires.t = "number" /\ now > mem[k].expires.n)
HeldValue(k) == IF useLocalStorage THEN ls[k].data ELSE mem[k].data

\* C8: when the effect runs for key k with enabled true and the selected
\* cache holds an unexpired entry for k, whatever its value, data becomes that
\* value, no producer is invoked and loading is not set.
C8_CacheHit ==
    [][\A k \in Keys :
          (ev'.op = "effect" /\ ev'.key = k /\ hook'.enabled /\ HeldUnexpired(k))
          => /\ hook'.data = HeldValue(k)
             /\ calls' = calls /\ fetches' = fetches
             /\ hook'.loading = hook.loading]_vars

\* C9, over ClientCache: an effect run for k that finds no unexpired entry
\* sets loading, clears error and invokes the producer once; when that
\* invocation resolves with r (here: and no run or refetch came after it)
\* the hook is at loading = false, data = r, error = null and the cache holds
\* r under k with expiry now + ttl.
C9_MissSuccess ==
    [][~useLocalStorage
       => /\ \A k \in Keys :
                (ev'.op = "effect" /\ ev'.key = k /\ hook'.enabled
                 /\ ~HeldUnexpired(k))
                => /\ hook'.loading /\ hook'.error = Null
                   /\ calls' = calls + 1
                   /\ fetches' = fetches \cup {Fetch(k, hook'.ttl, "effect")}
          /\ (ev'.op = "resolve" /\ ev'.by = "effect" /\ ev'.id = calls)
             => /\ ~hook'.loading /\ hook'.data = ev'.ret /\ hook'.error = Null
                /\ ev'.key \in DOMAIN mem'
                /\ mem'[ev'.key] = [data |-> ev'.ret,
                                    expires |-> Plus(now, hook.ttl)]]_vars

StoredAfter(k, v) ==
    IF useLocalStorage
    THEN k \in DOMAIN ls' /\ ls'[k].k = "object" /\ ls'[k].hasData
         /\ ls'[k].data = v
    ELSE k \in DOMAIN mem' /\ mem'[k].data = v
\* What C11 asks of a refetch() step: the entry of the key is gone, in every
\* state, and the producer is invoked once, for the key of the hook.
RefetchDeletesAndFetches ==
    ev'.op = "refetch"
    => /\ hook.key \notin DOMAIN (IF useLocalStorage THEN ls' ELSE mem')
       /\ calls' = calls + 1
       /\ fetches' = fetches \cup {Fetch(hook.key, hook.ttl, "refetch")}

C12_KeyChangeIsolation ==
    [][(ev'.op \in {"resolve", "reject"} /\ ev'.key # hook.key)
       => /\ hook'.data = hook.data
          /\ hook'.error = hook.error
          /\ hook'.loading = hook.loading]_vars

\* C13: when the invocation of a refetch() has resolved and an earlier
\* invocation for the same key, in flight when refetch() was called, resolves
\* after it, data and the cache entry of the key stay the refetch's result.
C13_RefetchSupersedes ==
    [][(/\ ev.op = "resolve" /\ ev.by = "refetch"
        /\ ev'.op = "resolve" /\ ev'.id < ev.id /\ ev'.key = ev.key
        /\ hook.key = ev.key)
       => /\ hook'.data = ev.ret
          /\ ~useLocalStorage => mem'[ev.key].data = ev.ret]_vars

\* C14: a run of the effect or a call of refetch() made while enabled is
\* false reads and changes no cache, invokes no producer and leaves data and
\* loading as they were (null and false on a hook never enabled).
C14_DisabledIsIdle ==
    [][(ev'.op \in {"effect", "refetch"} /\ ~hook'.enabled)
       => /\ calls' = calls /\ fetches' = fetches
          /\ mem' = mem /\ ls' = ls
          /\ hook'.data = hook.data /\ hook'.loading = hook.loading
          /\ (~hook.mounted => hook'.data = Null /\ ~hook'.loading)]_vars

\* ------------------------------------------------- claims on ChatSidebar.send
\* The whole body read as one chunk by a fresh reader.
InOneChunk(body) == processChunk(NoText, TextDecoder_decode(FALSE, body).text)
\* The deltas of the complete data: events among the first k bytes of the
\* body: those of the lines a line feed has closed.
CompleteEvents(body, k) ==
    LET lines == split(TextDecoder_decode(FALSE, SubSeq(body, 1, k)).text)
    IN  processLines(NoText, SubSeq(lines, 1, Len(lines) - 1))
\* The message with the given id shows the given content.
Shows(m, id, content) ==
    \E j \in 1..Len(m) : m[j].id = id /\ m[j].content = content

\* C15: when the reader reports the end of a well-framed body, the deltas
\* appended over its chunks are the deltas appended when the same body is
\* read as one chunk.
C15_ChunkIndependence ==
    [][\A i \in 1..Len(sessions) :
          (ev'.op = "done" /\ ev'.id = i)
          => sessions[i].acc.deltas = InOneChunk(sessions[i].body).deltas]_vars

\* C16: no delta is appended after a 'data: [DONE]' line was met, in the same
\* chunk or a later one, and a session that has met one issues no read().
C16_SentinelTerminates ==
    [][\A i \in 1..Len(sessions) :
          /\ sessions'[i].acc.late = 0
          /\ (sessions[i].acc.sawDone /\ ev'.id = i)
             => ev'.op \notin {"chunk", "done", "readfail"}]_vars

\* C17: while a session reads, the content of its assistant message is the
\* concatenation, in order, of the deltas of the complete data: events
\* received so far.
C17_ExactlyOnceInOrder ==
    \A i \in 1..Len(sessions) :
        sessions[i].pc = "read"
        => Shows(messages, sessions[i].assistantId,
                 CompleteEvents(sessions[i].body, sessions[i].pos).content)

\* C18: when read() reports done and no 'data: [DONE]' line was met, the
\* session ends in a way that can be told from a normal end: as a failure,
\* or with some change of the messages shown.
C18_PrematureEndIsError ==
    [][\A i \in 1..Len(sessions) :
          (ev'.op = "done" /\ ev'.id = i /\ ~sessions[i].acc.sawDone)
          => sessions'[i].outcome = "failed" \/ messages' # messages]_vars

\* C19: when read() rejects, send() ends in its catch block: the session is
\* over and an ended session takes no step (no read, no retry, no request),
\* every message shown stays where it was with its content, the partial
\* assistant message among them, the error message is appended after them
\* and loading is false.
C19_ReadFailure ==
    [][\A i \in 1..Len(sessions) :
          /\ (ev'.op = "readfail" /\ ev'.id = i)
             => /\ sessions'[i] = Ended("failed")
                /\ Len(sessions') = Len(sessions) /\ reads' = reads
                /\ Len(messages') = Len(messages) + 1
                /\ SubSeq(messages', 1, Len(messages)) = messages
                /\ Shows(messages', sessions[i].assistantId, sessions[i].acc.content)
                /\ messages'[Len(messages')].role = "assistant"
                /\ messages'[Len(messages')].content = ErrorText
                /\ ~loading'
          /\ sessions[i].pc = "ended"
             => sessions'[i] = sessions[i] /\ ev'.id # i]_vars

\* read() has rejected after a delta: the assistant message shows "x" and the
\* error message follows it.
C19_Witness ==
    /\ ev.op = "readfail" /\ Len(sessions) = 1 /\ ~loading
    /\ Len(messages) = 3
    /\ messages[2].role = "assistant" /\ messages[2].content = <<"x">>
    /\ messages[3].content = ErrorText

\* C20: the list of messages only grows, at its end; a message keeps its id,
\* role and index; ids are pairwise distinct; a chunk changes nothing but the
\* content of the assistant message of its session, in place, and no other
\* step changes a message.
C20_MessageList ==
    [][/\ Len(messages') >= Len(messages)
       /\ \A j \in 1..Len(messages) :
             /\ messages'[j].id = messages[j].id
             /\ messages'[j].role = messages[j].role
             /\ messages'[j] # messages[j]
                => /\ ev'.op = "chunk"
                   /\ messages[j].id = sessions[ev'.id].assistantId
                   /\ messages'[j].content = sessions'[ev'.id].acc.content
       /\ ev'.op = "chunk" => Len(messages') = Len(messages)
       /\ \A j, k \in 1..Len(messages') :
             messages'[j].id = messages'[k].id => j = k]_vars

\* Two sessions stream at once: a chunk has changed the assistant message at
\* index 3 while the assistant message of the other session follows it.
C20_Witness ==
    /\ ev.op = "chunk" /\ Len(messages) = 4 /\ Len(sessions) = 2
    /\ sessions[ev.id].assistantId = messages[3].id
    /\ messages[3].role = "assistant" /\ messages[3].content = <<"x">>
    /\ messages[4].role = "assistant" /\ messages[4].content = <<"é">>

\* ------------------------------------------------------- renderChatHtml
\* Position k of the output lies in the href value of an <a> tag.
InHref(h, k) ==
    \E a \in 1..(k - 1) : h[a] = AOpen /\ \A m \in (a + 1)..(k - 1) : h[m] # AMid

\* Position k of the output lies between <code> and </code> of a code span.
InCodeSpan(h, k) ==
    \E a \in 1..(k - 1) :
        /\ h[a] = "<code>"
        /\ \A m \in (a + 1)..(k - 1) : h[m] # "</code>"
        /\ \E b \in (k + 1)..Len(h) : h[b] = "</code>"

\* C21: no character of the input adds markup to the output: no '&', '<' or
\* '>' stands in it but as an entity, and no '"' of the input stands inside
\* a tag the renderer writes, where it would end the attribute value and
\* begin an attribute of its own.
C21_NoMarkupInjection ==
    \A k \in 1..Len(render.html) :
        /\ render.html[k] \notin {"&", "<", ">"}
        /\ render.html[k] = "\"" => ~InHref(render.html, k)

\* C22: what stands between the backticks of a code span is written inside
\* <code> as escaped text only: no <strong>, <em> or <a> inside it.
C22_CodeSpansProtected ==
    \A k \in 1..Len(render.html) :
        InCodeSpan(render.html, k) => render.html[k] \notin Markup

\* ----------------------------------------------------- the /api/chat relay
DoneEvent == EventOf(DoneToken)
\* The deltas of the {delta} events enqueued, in order.
Forwarded(out) ==
    LET events == SelectSeq(out, LAMBDA chunk : chunk # DoneEvent)
    IN  [k \in 1..Len(events) |-> events[k][8]]

\* The lines of an upstream text, and what a `data:` line carries.
UpstreamLines(bytes) == split(TextDecoder_decode(FALSE, bytes).text)
IsData(line) == startsWith(trim(line), DataPrefix)
DataOf(line) == trim(slice(trim(line), 5))
IsDone(line) == IsData(line) /\ DataOf(line) = DoneToken
\* The content deltas the upstream sent in `data:` events, in order, up to
\* its first [DONE].
Intended(body) ==
    LET lines == UpstreamLines(body)
        d == Least({k \in 1..(Len(lines) + 1) :
                        k > Len(lines) \/ IsDone(lines[k])})
        carrying == SelectSeq(SubSeq(lines, 1, d - 1),
                        LAMBDA l : IsData(l) /\ ParseChoice(DataOf(l)).delta # <<>>)
    IN  [k \in 1..Len(carrying) |-> ParseChoice(DataOf(carrying[k])).delta[1]]
\* The upstream bytes read so far hold a complete `data: [DONE]` line.
DoneRead ==
    LET lines == UpstreamLines(SubSeq(relay.body, 1, relay.pos))
    IN  \E k \in 1..(Len(lines) - 1) : IsDone(lines[k])
IsPrefix(a, b) == Len(a) <= Len(b) /\ SubSeq(b, 1, Len(a)) = a

\* C23: a relayed stream that is closed holds `data: [DONE]` once, as its
\* last event; an open one holds none and has read no [DONE] line; the end
\* of the upstream closes it; once closed nothing more is read or forwarded,
\* so that no delta the upstream sent after its [DONE] is forwarded.
C23_CompletionSignal ==
    /\ [](/\ relay.pc = "closed" =>
                /\ relay.out # <<>>
                /\ \A k \in 1..Len(relay.out) :
                       relay.out[k] = DoneEvent <=> k = Len(relay.out)
          /\ relay.pc = "read" =>
                /\ \A k \in 1..Len(relay.out) : relay.out[k] # DoneEvent
                /\ ~DoneRead
          /\ (relay.pc = "closed" /\ DoneRead) =>
                Forwarded(relay.out) = Intended(relay.body))
    /\ [][/\ relay.pc = "closed" => relay' = relay
          /\ ev'.op = "upstream-end" => relay'.pc = "closed"]_vars

\* The upstream sent a delta after its [DONE], in the same chunk, and the
\* relay closed the stream at the [DONE].
C23_Witness ==
    /\ relay.pc = "closed"
    /\ ev.op = "relayed"
    /\ relay.pos = Len(relay.body)
    /\ Len(Intended(relay.body)) = 1
    /\ \E k \in 1..Len(UpstreamLines(relay.body)) :
           /\ IsDone(UpstreamLines(relay.body)[k])
           /\ \E m \in (k + 1)..Len(UpstreamLines(relay.body)) :
                  IsData(UpstreamLines(relay.body)[m])

\* C24: when the relayed stream is closed, every content delta the upstream
\* sent in a `data:` event (the last one unterminated or not) has been
\* forwarded, once and in order.
C24_Completeness ==
    (relay.pc = "closed" /\ relay.body # <<>>) =>
        IsPrefix(Intended(relay.body), Forwarded(relay.out))

\* --------------------------------------------- the /api/text-process-stream route
IsTerminal(event) == event.type \in {"complete", "error"}
Concat(events) ==
    join([k \in 1..Len(events) |-> events[k].text], <<>>)

\* C25: every response is closed in the end, and a closed response holds
\* one terminal event, its last: error, or complete with the text processed
\* from all the content deltas forwarded.
C25_AlwaysTerminates ==
    /\ <>(process.pc = "closed")
    /\ [](process.pc = "closed" =>
            /\ process.out # <<>>
            /\ \A k \in 1..Len(process.out) :
                   IsTerminal(process.out[k]) <=> k = Len(process.out)
            /\ process.out[Len(process.out)].type = "complete" =>
                   process.out[Len(process.out)].text =
                       parseTextProcessResponse(
                           Concat(SubSeq(process.out, 1, Len(process.out) - 1))))

\* C26: whenever a producer invocation the hook started has not settled,
\* loading is true.
C26_LoadingTracksWork ==
    fetches # {} => hook.loading

\* C27: a send() made while an earlier send() has not finished, also one made
\* before the component rendered again, appends no message and starts no
\* request; and loading is false after a send() finishes.
C27_OneSessionInFlight ==
    [][/\ (ev'.op \in {"send", "ignored"}
           /\ \E i \in 1..Len(sessions) : sessions[i].pc # "ended")
          => messages' = messages /\ sessions' = sessions
       /\ ev'.op \in {"done", "readfail", "fetchfail"} => ~loading']_vars

\* ------------------------------------------------ RetryManager.withRetry
\* The HTTP status an error carries, 0 for none.
StatusOf(error) ==
    IF error.status # 0 THEN error.status
    ELSE IF error.response THEN error.responseStatus ELSE 0

Failures == Len(retry.thrown)

\* What withRetry has waited for so far.
DelaysDue(n) == [k \in 1..n |-> retry.baseDelay * pow(2, k - 1)]

RunOfWithRetry ==
    /\ retry.invocations <= retry.maxAttempts
    /\ retry.pc = "calling" =>
           /\ retry.invocations = Failures + 1
           /\ retry.waits = DelaysDue(Failures)
    /\ retry.pc = "waiting" =>
           /\ retry.invocations = Failures
           /\ retry.waits = DelaysDue(Failures)
    /\ retry.pc = "resolved" =>
           /\ retry.invocations = Failures + 1
           /\ retry.waits = DelaysDue(Failures)
    /\ retry.pc = "rejected" =>
           /\ retry.invocations = Failures
           /\ retry.waits = DelaysDue(Failures - 1)
           /\ retry.lastError = ErrorHandler_handle(retry.thrown[Failures])
           /\ \/ retry.invocations = retry.maxAttempts
              \/ ~ErrorHandler_shouldRetry(retry.lastError)
    /\ \A k \in 1..Failures :
           ~ErrorHandler_shouldRetry(ErrorHandler_handle(retry.thrown[k]))
               => k = Failures /\ retry.pc = "rejected"

StepOfWithRetry ==
    /\ retry.pc \in {"resolved", "rejected"} => retry' = retry
    /\ retry'.invocations > retry.invocations =>
           retry.pc \in {"idle", "waiting"}
    /\ Len(retry'.thrown) = Failures /\ ev'.op # "handleError" => logs' = logs
    /\ Len(retry'.thrown) = Failures + 1 =>
           LET added == Len(logs') - Len(logs)
               byHook == IF retry.by = "hook" /\ retry'.pc = "rejected"
                         THEN 1 ELSE 0
           IN  /\ added = 1 + byHook
               /\ logs'[added] = ErrorHandler_handle(retry'.thrown[Failures + 1])
               /\ SubSeq(logs', added + 1, Len(logs')) = logs

\* C28: withRetry calls the operation at most maxAttempts times; after it
\* resolves, or rejects with an error that is not to be retried, the
\* operation is not called again; the k-th delay is baseDelay * 2^(k-1);
\* withRetry rejects with the classified error of the last attempt, after
\* maxAttempts calls or a failure that is not to be retried; each failed
\* attempt adds one entry to the log of withRetry.
C28_BoundedRetry == [](RunOfWithRetry) /\ [][StepOfWithRetry]_vars

C28_Witness ==
    /\ retry.pc = "rejected"
    /\ retry.by = "caller"
    /\ retry.maxAttempts = 3
    /\ retry.invocations = 3
    /\ retry.waits = <<250, 500>>
    /\ Len(logs) = 3

\* C29: a failure that carries a status of 500 or more is classified an API
\* error that is to be retried, and withRetry gives up on it only after
\* maxAttempts calls; a failure that carries a status from 400 to 499 is the
\* last one of its run.
C29_ServerErrorsRetried ==
    \A k \in 1..Failures :
        LET error == retry.thrown[k]
            status == StatusOf(error)
        IN  /\ status >= 500 =>
                /\ ErrorHandler_handle(error).type = API
                /\ ErrorHandler_shouldRetry(ErrorHandler_handle(error))
                /\ k = Failures /\ retry.pc = "rejected"
                       => retry.invocations = retry.maxAttempts
            /\ status >= 400 /\ status < 500 =>
                   k = Failures /\ retry.pc = "rejected"

\* C30: classifying a classified error keeps its type, so when retry of the
\* hook has failed, the error of the hook has the type withRetry gave the
\* last failure; retry without an error starts nothing; isRetrying is false
\* once retry is over.
C30_ClassificationIdempotent ==
    /\ \A k \in 1..Failures :
           ErrorHandler_handle(ErrorHandler_handle(retry.thrown[k])).type
               = ErrorHandler_handle(retry.thrown[k]).type
    /\ retry.by = "hook" /\ ev.op = "rejected" =>
           /\ errorHook.error.type = retry.lastError.type
           /\ ~errorHook.isRetrying
    /\ retry.by = "hook" /\ ev.op = "resolved" => ~errorHook.isRetrying
    /\ ev.op = "ignored" => retry.pc = "idle" /\ ~errorHook.isRetrying

====
